---- MODULE Spec2Model ----
(***************************************************************************)
(* NIMB Mobile gateway (src/nimb/app.go).                                  *)
(*                                                                         *)
(* Spec      : the Tunnel Supervisor - StartTunnel, StopTunnel, the two    *)
(*             output reader goroutines, the exit watcher goroutine, and   *)
(*             the two readers of tunnel state (handleTunnelStatus and     *)
(*             GetHealth).                                                 *)
(* FairSpec  : Spec with the Go scheduler's fairness for goroutines and    *)
(*             handlers that have been started.                            *)
(* StoreSpec : the State Store and the Relay - handleChatCompletions step  *)
(*             by step, logError and handleResetStats under a.mu.          *)
(* ConfigSpec: handleSaveConfig, handleSetModel, handleSetAPIKey with      *)
(*             saveSettings, and the readers handleConfig, handleStats.    *)
(* IOSpec    : ConfigSpec with the fairness of sync.RWMutex and of the     *)
(*             scheduler; a caller may stop reading its response.          *)
(* ReadSpec  : ConfigSpec together with one chat-completion request.       *)
(* LogSpec   : logError filling the error log beyond its cap.              *)
(* TranslateSpec : the Request Translator applied to inbound bodies.       *)
(* AbortSpec : chat-completion requests with and without a credential,     *)
(*             next to one caller of /api/apikey.                          *)
(* RelaySpec : the streaming relay loop, chunk by chunk, with a caller     *)
(*             that may disconnect.                                        *)
(* ScanSpec  : scanForURL applied to chunks of subprocess output.          *)
(***************************************************************************)
EXTENDS Integers, Sequences, FiniteSets, TLC

\* ------------------------------------------------------------------ bounds
NumClients == 2       \* concurrent HTTP callers of the tunnel endpoints
MaxSpawn   == 2       \* subprocesses that cmd.Start() creates in one run
MaxChunks  == 1       \* chunks of output one subprocess writes
NumHandlers == 2      \* chat-completion requests handled at the same time
MaxRequests == 3      \* chat-completion requests in one run
MaxResets   == 1      \* statistics resets in one run
NumAdmins   == 2      \* concurrent callers of the /api configuration and read endpoints
MaxConfigOps == 2     \* configuration updates in one run
MaxErrors   == 52     \* failing requests in one run of the error log specification
MaxAborts   == 2      \* chat-completion requests in one run of the abort specification
MaxBody     == 3      \* bytes of an upstream body in the relay specification
MaxRead     == 2      \* bytes one resp.Body.Read returns (the buffer's size)
MaxChunkLen == 4      \* tokens of a chunk in the scan specification
MaxScans    == 2      \* chunks scanned in one run of the scan specification

Clients == 1..NumClients
Handlers == 1..NumHandlers
Admins  == 1..NumAdmins
Procs   == 1..MaxSpawn
Streams == {"stderr", "stdout"}
Roles   == Streams \cup {"watch"}

\* ------------------------------------------------- text of subprocess output
\* A chunk of output is a sequence of tokens: the two multi-byte substrings the
\* code searches for, and single bytes.
HTTPS  == "https://"
MARKER == "trycloudflare.com"
WhiteSpace == {" ", "\t", "\n", "\r"}

\* strings.Contains(s, tok)
Contains(s, tok) == \E i \in 1..Len(s) : s[i] = tok

\* strings.Index(s, tok): 0-based offset of the first occurrence, -1 if none
Index(s, tok) ==
    IF Contains(s, tok)
    THEN (CHOOSE i \in 1..Len(s) : s[i] = tok /\ \A j \in 1..(i-1) : s[j] # tok) - 1
    ELSE -1

\* s[lo:hi] of Go (0-based, hi exclusive)
Slice(s, lo, hi) == SubSeq(s, lo + 1, hi)

RECURSIVE TrimLeft(_)
TrimLeft(s) == IF s # <<>> /\ Head(s) \in WhiteSpace THEN TrimLeft(Tail(s)) ELSE s

RECURSIVE TrimRight(_)
TrimRight(s) ==
    IF s # <<>> /\ s[Len(s)] \in WhiteSpace THEN TrimRight(SubSeq(s, 1, Len(s) - 1)) ELSE s

\* strings.TrimSpace(s)
TrimSpace(s) == TrimRight(TrimLeft(s))

\* strings.HasSuffix(s, ".")
HasSuffixDot(s) == s # <<>> /\ s[Len(s)] = "."

\* Whether scanForURL's two conditions hold for a chunk (app.go 224-226)
ScanMatches(output) == Contains(output, MARKER) /\ Index(output, HTTPS) # -1

\* The url scanForURL computes for a matching chunk (app.go 225-234)
ScanURL(output) ==
    LET start == Index(output, HTTPS)
        rest  == Slice(output, start, Len(output))
        sp    == Index(rest, " ")
        end   == IF sp = -1 THEN Len(output) - start ELSE sp
        url   == TrimSpace(Slice(output, start, start + end))
    IN  IF HasSuffixDot(url) THEN SubSeq(url, 1, Len(url) - 1) ELSE url

ChunkNoise == <<"I", "N", "F", " ", "x", "\n">>
ChunkURL1  == <<"|", " ", HTTPS, "a", ".", MARKER, " ", "|", "\n">>
ChunkURL2  == <<HTTPS, "b", ".", MARKER, ".", "\n">>
\* what the subprocess may write in the supervisor specification
OutputChunks == {ChunkNoise, ChunkURL1, ChunkURL2}

\* ------------------------------------------------------------------- state
VARIABLES
    tunnel,       \* a.tunnel: [URL, Status, process]; process 0 is nil
    tmu,          \* a.tunnel.mu: the thread holding it, NoHolder when free
    alive,        \* alive[p]: subprocess p was started and has not exited
    emitted,      \* emitted[p]: chunks p has written so far
    nspawned,     \* subprocesses created so far
    gpc,          \* gpc[p][role]: position of p's reader / watcher goroutines
    gbuf,         \* gbuf[p][stream]: the chunk a reader holds (output)
    pc,           \* pc[c]: position of client c's handler
    ret,          \* ret[c]: the result client c's handler is about to send
    tmp,          \* tmp[c]: GetHealth's partly built tunnel map; in StartTunnel
                  \* the Status the call found
    mu,           \* a.mu (sync.RWMutex): [writer, readers]
    config,       \* a.config
    stats,        \* a.stats
    hpc,          \* hpc[h]: position of chat-completion handler h
    hloc,         \* hloc[h]: locals of handler h
    nreq,         \* chat-completion requests accepted so far
    nreset,       \* statistics resets so far
    issued,       \* sums of the increments the handlers set out to make
    applied,      \* sums of the increments stored since the last reset
    nerr,         \* errors recorded so far: the clock of the error log
    limit,        \* the calls the callers make in one run: [req, reset, cfg]
    ncfg,         \* configuration updates called so far
    apc,          \* apc[a]: position of the /api handler serving caller a
    aloc,         \* aloc[a]: locals of that handler
    disk,         \* contents of settings.json
    treq,         \* a translation: [body, extra, config, out, pass]
    relay,        \* a streaming relay: the loop of app.go 595-605
    scan          \* scanForURL applied to chunks: [URL, Status, chunk, n]

tunnelVars == <<tunnel, tmu, alive, emitted, nspawned, gpc, gbuf, pc, ret, tmp>>
storeVars  == <<config, stats, hpc, hloc, nreq, nreset, issued, applied, nerr>>
adminVars  == <<limit, ncfg, apc, aloc, disk, treq, relay, scan>>
vars == <<tunnelVars, mu, storeVars, adminVars>>

NoHolder == <<>>
Client(c)  == <<"client", c>>
Handler(h) == <<"handler", h>>
Admin      == <<"admin">>
Caller(a)  == <<"caller", a>>

NoURL == <<>>
NoRet == [op |-> "none", success |-> FALSE, status |-> "", url |-> NoURL, err |-> ""]

\* NewApp (app.go 94-96): Status "stopped", URL "", process nil
TunnelInit == [URL |-> NoURL, Status |-> "stopped", process |-> 0]

\* NewApp (app.go 80-93); APIKey is what loadSettings found (app.go 104-120)
ConfigInit(key) ==
    [LogRequests |-> TRUE, MaxTokens |-> 0, Temperature |-> "0.7", StreamingEnabled |-> TRUE,
     CurrentModel |-> "deepseek-ai/deepseek-v3.2", APIKey |-> key]

\* the zero value of Config
NoConfig ==
    [LogRequests |-> FALSE, MaxTokens |-> 0, Temperature |-> "0", StreamingEnabled |-> FALSE,
     CurrentModel |-> "", APIKey |-> ""]

\* Stats{StartTime: now, ErrorLog: []} (app.go 90-93, 410-413); a timestamp
\* is "" (never set) or "t"
StatsInit ==
    [MessageCount |-> 0, PromptTokens |-> 0, CompletionTokens |-> 0,
     TotalTokens |-> 0, ErrorCount |-> 0, LastRequestTime |-> "",
     StartTime |-> "t", ErrorLog |-> <<>>]

Counters == {"MessageCount", "PromptTokens", "CompletionTokens", "TotalTokens",
             "ErrorCount"}
ZeroSums == [f \in Counters |-> 0]

NoUsage == [present |-> FALSE]

\* ------------------------------------------------------- JSON and bodies
\* the count is rounded to the nearest whole number
ToInt_Rounds(x) == (x + 1) \div 2

\* A JSON number is held in halves (3 is 1.5), so that int(float64) is a
\* conversion: Go truncates toward zero.
ToInt(x) == IF x >= 0 THEN x \div 2 ELSE -((-x) \div 2)

\* usage["prompt_tokens"].(float64) and the two others (app.go 614-620), in the
\* order the code adds them: ok is the type assertion's result
TokenField == <<"PromptTokens", "CompletionTokens", "TotalTokens">>
Num(x) == [ok |-> TRUE, v |-> x]
NoNum  == [ok |-> FALSE, v |-> 0]

\* usage objects of upstream bodies: none, a full one with whole counts, a
\* full one with fractional counts, and one with a fractional count and a
\* field that is no number
UsageBodies ==
    { NoUsage,
      [present |-> TRUE, f |-> <<Num(4), Num(2), Num(6)>>],
      [present |-> TRUE, f |-> <<Num(3), Num(2), Num(5)>>],
      [present |-> TRUE, f |-> <<Num(3), NoNum, Num(3)>>] }

\* upstream response bodies as io.ReadAll returns them (app.go 607): bytes that
\* are no JSON, a JSON object without "usage", one whose "usage" is no object,
\* and objects with the usage objects above
NoBody == [kind |-> "none", usage |-> NoUsage]
UpstreamBodies ==
    { [kind |-> k, usage |-> NoUsage] : k \in {"not json", "no usage", "usage not object"} }
    \cup { [kind |-> "usage", usage |-> u] : u \in UsageBodies \ {NoUsage} }

\* a "usage" that is no object is taken for one
ParseUsage_AnyUsage(body) ==
    IF body.kind = "usage" THEN body.usage
    ELSE IF body.kind = "usage not object"
         THEN [present |-> TRUE, f |-> <<Num(2), Num(2), Num(2)>>]
         ELSE NoUsage

\* json.Unmarshal(respBody, &nimResp) and nimResp["usage"].(map[string]interface{})
\* (app.go 609-612): a body that does not parse leaves nimResp nil
ParseUsage(body) == IF body.kind = "usage" THEN body.usage ELSE NoUsage

\* status codes client.Do returns with a response
UpstreamStatuses == {200, 429}

\* the first field from k on that the handler adds, 4 if none
RECURSIVE NextField(_, _)
NextField(u, k) == IF k > 3 \/ u.f[k].ok THEN k ELSE NextField(u, k + 1)

\* the sums after a response's usage is added field by field
AddUsage(sums, u) ==
    [c \in Counters |->
        sums[c] + (IF \E k \in 1..3 : TokenField[k] = c /\ u.f[k].ok
                   THEN ToInt(u.f[CHOOSE k \in 1..3 : TokenField[k] = c].v)
                   ELSE 0)]

ErrorLogCap == 50

\* the new entry is put behind the others
Prepend_Appends(log, item) == log \o <<item>>

\* app.go 641-645: append([]ErrorItem{item}, log...), the new entry in front
Prepend(log, item) == <<item>> \o log

\* app.go 647-649: a log of more than 50 entries is cut to its first 50
Truncate(log) == IF Len(log) > ErrorLogCap THEN SubSeq(log, 1, ErrorLogCap) ELSE log

\* ---------------------------------------------------- Request Translator
\* A JSON value of an inbound body: t is its type ("absent" when the key is
\* missing), s its text, n its number in halves. A number that float64 cannot
\* hold is kept by its literal in s.
JAbsent  == [t |-> "absent", s |-> "", n |-> 0]
JNull    == [t |-> "null", s |-> "", n |-> 0]
JStr(x)  == [t |-> "str", s |-> x, n |-> 0]
JBool(b) == [t |-> "bool", s |-> IF b THEN "true" ELSE "false", n |-> 0]
JNum(h)  == [t |-> "num", s |-> "", n |-> h]
JLit(x)  == [t |-> "num", s |-> x, n |-> 0]

\* 2^53 + 1 and the float64 nearest to it
BigOdd  == "9007199254740993"
BigEven == "9007199254740992"

\* json.Unmarshal into interface{} (app.go 483-484) stores a number as float64
Float64(v) == IF v.t = "num" /\ v.s = BigOdd THEN JLit(BigEven) ELSE v

\* a messages value: [t, items], items a sequence of [role, content, id]
NoMessages == [t |-> "absent", items |-> <<>>]
Messages(items) == [t |-> "arr", items |-> items]

\* json.Unmarshal of a messages value: every number in it becomes a float64
DecodeMessages(m) ==
    [m EXCEPT !.items = [i \in 1..Len(m.items) |->
                            [m.items[i] EXCEPT !.id = Float64(m.items[i].id)]]]

\* json.Marshal (app.go 524) of a value taken from the decoded map: a missing
\* key was read as nil and is written as null
Marshal(v) == IF v.t = "absent" THEN [v EXCEPT !.t = "null"] ELSE v

\* the caller's number is passed on as it is
IntOf_Keeps(v) == v

\* int(maxTok) (app.go 502)
IntOf(v) == JNum(2 * ToInt(v.n))

\* app.go 490-511 and 524: the outbound body built from the decoded inbound
\* body and the configuration snapshot
Translate(reqBody, cfg) ==
    [model       |-> JStr(cfg.CurrentModel),
     messages    |-> Marshal(DecodeMessages(reqBody.messages)),
     temperature |-> IF reqBody.temperature.t = "num"
                     THEN Float64(reqBody.temperature) ELSE JLit(cfg.Temperature),
     max_tokens  |-> IF reqBody.max_tokens.t = "num"
                     THEN IntOf(reqBody.max_tokens) ELSE JNum(2 * cfg.MaxTokens),
     stream      |-> IF reqBody.stream.t = "bool"
                     THEN reqBody.stream ELSE JBool(cfg.StreamingEnabled)]

\* the allow-listed fields (app.go 513)
PassthroughParams ==
    {"top_p", "top_k", "frequency_penalty", "presence_penalty", "repetition_penalty",
     "min_p", "seed", "stop", "n", "context_length", "context_window", "truncate"}

\* app.go 514-518 and 524: every allow-listed key of the decoded inbound body
\* is put into the outbound body with its decoded value
Passthrough(extra) ==
    [k \in (DOMAIN extra) \cap PassthroughParams |-> Marshal(Float64(extra[k]))]

\* the keys of the outbound body: the five that app.go 490-511 always sets
\* and those of the allow-listed fields
OutKeys(out, pass) == (DOMAIN out) \cup (DOMAIN pass)

\* nimReq["stream"].(bool) (app.go 582)
IsStream(out) == out.stream.s = "true"

Msg(role, content, id) == [role |-> role, content |-> content, id |-> id]
Hi == Msg("user", "hi", JAbsent)

\* inbound bodies that parse as JSON objects
MessagesValues ==
    { NoMessages, Messages(<<>>), Messages(<<Hi>>),
      Messages(<<Msg("system", "s", JNum(2)), Hi>>),
      Messages(<<Msg("user", "hi", JLit(BigOdd))>>) }
TemperatureValues == {JAbsent, JNull, JNum(1), JNum(4), JStr("0.5")}
MaxTokensValues   == {JAbsent, JNum(512), JNum(201), JStr("256")}
StreamValues      == {JAbsent, JBool(TRUE), JBool(FALSE), JStr("true")}
ModelValues       == {JAbsent, JStr("gpt-4")}

Bodies ==
    [model : ModelValues, messages : MessagesValues, temperature : TemperatureValues,
     max_tokens : MaxTokensValues, stream : StreamValues]

\* the other fields of an inbound body: none, allow-listed ones, others
NoFields == [k \in {} |-> JNull]
ExtraBodies ==
    { NoFields,
      ("top_p" :> JNum(1)),
      ("seed" :> JLit(BigOdd)),
      ("stop" :> JNull) @@ ("user" :> JStr("u")),
      ("seed" :> JNum(84)) @@ ("n" :> JNum(2)) @@ ("tools" :> JStr("[]")),
      ("user" :> JStr("u")) @@ ("logit_bias" :> JNull) }

\* the bodies of the chat-completion requests of the store specification
ChatBodies ==
    { [model |-> JStr("gpt-4"), messages |-> Messages(<<Hi>>), temperature |-> JAbsent,
       max_tokens |-> JAbsent, stream |-> st] : st \in {JAbsent, JBool(TRUE), JBool(FALSE)} }
NoOut == Translate([model |-> JAbsent, messages |-> NoMessages, temperature |-> JAbsent,
                    max_tokens |-> JAbsent, stream |-> JAbsent],
                   [CurrentModel |-> "", Temperature |-> "", MaxTokens |-> 0,
                    StreamingEnabled |-> FALSE])

\* ----------------------------------------------------------- responses
\* what the caller has been sent: status 0 is nothing yet
NoSent == [status |-> 0, kind |-> "none", msg |-> "", type |-> "", code |-> 0,
           raw |-> NoBody]

\* {"error":{"message":..,"type":..,"code":..}} with its status (app.go
\* 470-472, 564-572)
ErrorJSON(msg, type, code) ==
    [status |-> code, kind |-> "error json", msg |-> msg, type |-> type, code |-> code,
     raw |-> NoBody]

\* http.Error(w, msg, code) (app.go 479, 486)
ErrorText(msg, code) ==
    [status |-> code, kind |-> "text", msg |-> msg, type |-> "", code |-> 0, raw |-> NoBody]

\* w.WriteHeader(resp.StatusCode); w.Write(respBody) (app.go 627-628)
Forwarded(status, body) ==
    [status |-> status, kind |-> "upstream", msg |-> "", type |-> "", code |-> 0,
     raw |-> body]

\* w.Write(buf[:n]) with no WriteHeader before it (app.go 585-600): net/http
\* sends status 200 with the first write
Streamed(body) ==
    [status |-> 200, kind |-> "stream", msg |-> "", type |-> "", code |-> 0, raw |-> body]

NoKeyMessage == "API key not configured"
UpstreamFailMessage == "dial tcp: i/o timeout"
BodyFailMessages == {"unexpected EOF", "invalid character"}

\* app.go 563, 565, 570
UpstreamFailCode == 500

\* every failure is answered by http.Error
ErrorReply_PlainText(msg, code) == ErrorText(msg, code)

\* the error response of each failure (app.go 470-472, 479, 486, 564-572)
ErrorReply(msg, code) ==
    IF msg = NoKeyMessage THEN ErrorJSON(msg, "configuration_error", 500)
    ELSE IF msg \in BodyFailMessages THEN ErrorText(msg, code)
    ELSE ErrorJSON(msg, "api_error", UpstreamFailCode)

\* the locals of a chat-completion handler before its request
HLocInit ==
    [apiKey |-> "", config |-> NoConfig, out |-> NoOut, up |-> 0, body |-> NoBody,
     usage |-> NoUsage, k |-> 0, load |-> 0, before |-> <<0, 0, 0>>, counted |-> FALSE,
     msg |-> "", code |-> 0, sent |-> NoSent]

\* the locals of an /api handler before its request
ALocInit == [cfg |-> NoConfig, req |-> "", success |-> FALSE, what |-> "", partial |-> FALSE]

NoDisk == [present |-> FALSE, data |-> NoConfig]
NoTreq == [body |-> CHOOSE b \in ChatBodies : TRUE, extra |-> NoFields, config |-> NoConfig,
           out |-> NoOut, pass |-> NoFields, done |-> FALSE]

\* no relay has begun
NoRelay == [pc |-> "off", up |-> <<>>, n |-> <<>>, err |-> FALSE, read |-> <<>>,
            written |-> <<>>, chunks |-> 0, flushes |-> 0, open |-> TRUE,
            failed |-> FALSE, closed |-> FALSE]

\* no chunk has been scanned
NoScan == [URL |-> NoURL, Status |-> "starting", chunk |-> <<>>, n |-> 0]

TunnelIdle ==
    /\ tunnel = TunnelInit
    /\ tmu = NoHolder
    /\ alive = [p \in Procs |-> FALSE]
    /\ emitted = [p \in Procs |-> 0]
    /\ nspawned = 0
    /\ gpc = [p \in Procs |-> [r \in Roles |-> "off"]]
    /\ gbuf = [p \in Procs |-> [s \in Streams |-> <<>>]]
    /\ pc = [c \in Clients |-> "idle"]
    /\ ret = [c \in Clients |-> NoRet]
    /\ tmp = [c \in Clients |-> NoRet]

StoreIdle ==
    /\ mu = [writer |-> NoHolder, readers |-> {}]
    /\ stats = StatsInit
    /\ hpc = [h \in Handlers |-> "idle"]
    /\ hloc = [h \in Handlers |-> HLocInit]
    /\ nreq = 0
    /\ nreset = 0
    /\ issued = ZeroSums
    /\ applied = ZeroSums
    /\ nerr = 0

AdminIdle ==
    /\ ncfg = 0
    /\ apc = [a \in Admins |-> "idle"]
    /\ aloc = [a \in Admins |-> ALocInit]
    /\ disk = NoDisk
    /\ treq = NoTreq
    /\ relay = NoRelay
    /\ scan = NoScan

StoreLimit == [req |-> MaxRequests, reset |-> MaxResets, cfg |-> 0]

Init == TunnelIdle /\ StoreIdle /\ AdminIdle /\ limit = StoreLimit /\ config = ConfigInit("")

procVars == <<alive, emitted, nspawned, gpc, gbuf>>

\* A critical section of a.tunnel.mu that makes no call which can block is one
\* step, enabled when the mutex is free. StartTunnel holds the mutex across
\* cmd.Start(), so it is two steps with tmu held in between. The loads of
\* GetHealth, which take no a.tunnel.mu, are steps of their own.
TunnelFree == tmu = NoHolder

\* the handler writes its response and the request ends
Respond(c) ==
    /\ pc[c] = "respond"
    /\ pc' = [pc EXCEPT ![c] = "idle"]
    /\ ret' = [ret EXCEPT ![c] = NoRet]
    /\ UNCHANGED <<tunnel, tmu, tmp, procVars, mu, storeVars, adminVars>>

\* ------------------------------------------------------------- StartTunnel
\* the test made against the wrong status
AlreadyRunning_WrongStatus == tunnel.Status = "starting"

\* the test of app.go 160
AlreadyRunning == tunnel.Status = "running"

\* what StartTunnel returns for a running tunnel (app.go 161-165)
RunningResult == [op |-> "start", success |-> TRUE, status |-> "running",
                  url |-> tunnel.URL, err |-> ""]

\* app.go 157-204: Lock; the no-op for a running tunnel; the search for the
\* cloudflared binary (found or not is the file system's answer);
\* Status = "starting"
StartCheck(c) ==
    /\ pc[c] = "idle"
    /\ TunnelFree
    /\ IF AlreadyRunning
       THEN /\ ret' = [ret EXCEPT ![c] = RunningResult]
            /\ pc' = [pc EXCEPT ![c] = "respond"]
            /\ UNCHANGED <<tunnel, tmu, tmp>>
       ELSE \E found \in BOOLEAN :
              IF ~found
              THEN /\ ret' = [ret EXCEPT ![c] = [op |-> "start", success |-> FALSE,
                                 status |-> "", url |-> NoURL, err |-> "not found"]]
                   /\ pc' = [pc EXCEPT ![c] = "respond"]
                   /\ UNCHANGED <<tunnel, tmu, tmp>>
              ELSE /\ tunnel' = [tunnel EXCEPT !.Status = "starting"]
                   /\ tmp' = [tmp EXCEPT ![c] = [NoRet EXCEPT !.status = tunnel.Status]]
                   /\ tmu' = Client(c)
                   /\ pc' = [pc EXCEPT ![c] = "st_spawn"]
                   /\ UNCHANGED ret
    /\ UNCHANGED <<procVars, mu, storeVars, adminVars>>

\* app.go 212-218: cmd.Start() fails; Status = "stopped"; Unlock
StartSpawnFail(c) ==
    /\ pc[c] = "st_spawn"
    /\ tmu = Client(c)
    /\ tunnel' = [tunnel EXCEPT !.Status = "stopped"]
    /\ ret' = [ret EXCEPT ![c] = [op |-> "start", success |-> FALSE,
                  status |-> "", url |-> NoURL, err |-> "start failed"]]
    /\ tmp' = [tmp EXCEPT ![c] = NoRet]
    /\ tmu' = NoHolder
    /\ pc' = [pc EXCEPT ![c] = "respond"]
    /\ UNCHANGED <<procVars, mu, storeVars, adminVars>>

\* app.go 212, 220-285: cmd.Start() succeeds, the handle is stored, the three
\* goroutines are launched, {success, "starting"} is returned; Unlock
StartSpawnOk(c) ==
    /\ pc[c] = "st_spawn"
    /\ tmu = Client(c)
    /\ nspawned < MaxSpawn
    /\ LET p == nspawned + 1 IN
         /\ nspawned' = p
         /\ alive' = [alive EXCEPT ![p] = TRUE]
         /\ tunnel' = [tunnel EXCEPT !.process = p]
         /\ gpc' = [gpc EXCEPT ![p] = [stderr |-> "read", stdout |-> "read", watch |-> "wait"]]
    /\ ret' = [ret EXCEPT ![c] = [op |-> "start", success |-> TRUE,
                  status |-> "starting", url |-> NoURL, err |-> ""]]
    /\ tmp' = [tmp EXCEPT ![c] = NoRet]
    /\ tmu' = NoHolder
    /\ pc' = [pc EXCEPT ![c] = "respond"]
    /\ UNCHANGED <<emitted, gbuf, mu, storeVars, adminVars>>

StartTunnel(c) == StartCheck(c) \/ StartSpawnFail(c) \/ StartSpawnOk(c)

\* -------------------------------------------------------------- StopTunnel
\* The subprocess is gone: a Read blocked on one of its pipes returns io.EOF
\* and that reader breaks out of its loop (app.go 248-251, 262-265), which
\* changes nothing shared, so it is part of the step that ends the subprocess.
Exited(p) ==
    /\ alive' = [alive EXCEPT ![p] = FALSE]
    /\ gpc' = [gpc EXCEPT ![p] = [r \in Roles |->
                  IF r \in Streams /\ gpc[p][r] = "read" THEN "done" ELSE gpc[p][r]]]

\* Process.Kill() (app.go 294): SIGKILL ends a live process; on one that has
\* exited it returns an error that StopTunnel drops
Kill(p) == IF alive[p] THEN Exited(p) ELSE UNCHANGED <<alive, gpc>>

\* StopTunnel without its last assignment
StoppedState_KeepsURL == [tunnel EXCEPT !.process = 0, !.Status = "stopped"]

\* the tunnel fields StopTunnel leaves (app.go 295, 297-298)
StoppedState == [tunnel EXCEPT !.process = 0, !.Status = "stopped", !.URL = NoURL]

\* app.go 289-300
StopTunnel(c) ==
    /\ pc[c] = "idle"
    /\ TunnelFree
    /\ IF tunnel.process # 0
       THEN Kill(tunnel.process)
       ELSE UNCHANGED <<alive, gpc>>
    /\ tunnel' = StoppedState
    /\ ret' = [ret EXCEPT ![c] = [op |-> "stop", success |-> TRUE,
                  status |-> "", url |-> NoURL, err |-> ""]]
    /\ pc' = [pc EXCEPT ![c] = "respond"]
    /\ UNCHANGED <<tmu, tmp, emitted, nspawned, gbuf, mu, storeVars, adminVars>>

\* ------------------------------------------------------ handleTunnelStatus
\* app.go 442-450: both fields are encoded under a.tunnel.mu
handleTunnelStatus(c) ==
    /\ pc[c] = "idle"
    /\ TunnelFree
    /\ ret' = [ret EXCEPT ![c] = [op |-> "status", success |-> TRUE,
                  status |-> tunnel.Status, url |-> tunnel.URL, err |-> ""]]
    /\ pc' = [pc EXCEPT ![c] = "respond"]
    /\ UNCHANGED <<tunnel, tmu, tmp, procVars, mu, storeVars, adminVars>>

\* --------------------------------------------------------------- GetHealth
\* a.mu (sync.RWMutex)
RLock(t)   == mu.writer = NoHolder /\ mu' = [mu EXCEPT !.readers = @ \cup {t}]
RUnlock(t) == mu' = [mu EXCEPT !.readers = @ \ {t}]
Lock(t)    == mu.writer = NoHolder /\ mu.readers = {} /\ mu' = [mu EXCEPT !.writer = t]
Unlock(t)  == mu' = [mu EXCEPT !.writer = NoHolder]
MuFree     == mu.writer = NoHolder /\ mu.readers = {}

\* app.go 136, 146-149: under a.mu.RLock() (which no writer of the tunnel
\* fields takes), a.tunnel.URL and a.tunnel.Status are loaded without
\* a.tunnel.mu. The two loads race with the writers of the tunnel fields, so
\* either may take effect first.
HealthFirst(c) ==
    /\ pc[c] = "idle"
    /\ RLock(Client(c))
    /\ \/ /\ tmp' = [tmp EXCEPT ![c] = [NoRet EXCEPT !.url = tunnel.URL]]
          /\ pc' = [pc EXCEPT ![c] = "gh_status"]
       \/ /\ tmp' = [tmp EXCEPT ![c] = [NoRet EXCEPT !.status = tunnel.Status]]
          /\ pc' = [pc EXCEPT ![c] = "gh_url"]
    /\ UNCHANGED <<tunnel, tmu, ret, procVars, storeVars, adminVars>>

\* the other load, and the return (app.go 139-152)
HealthSecond(c) ==
    /\ pc[c] \in {"gh_status", "gh_url"}
    /\ RUnlock(Client(c))
    /\ ret' = [ret EXCEPT ![c] =
                 [op |-> "health", success |-> TRUE, err |-> "",
                  status |-> IF pc[c] = "gh_status" THEN tunnel.Status ELSE tmp[c].status,
                  url    |-> IF pc[c] = "gh_url" THEN tunnel.URL ELSE tmp[c].url]]
    /\ tmp' = [tmp EXCEPT ![c] = NoRet]
    /\ pc' = [pc EXCEPT ![c] = "respond"]
    /\ UNCHANGED <<tunnel, tmu, procVars, storeVars, adminVars>>

GetHealth(c) == HealthFirst(c) \/ HealthSecond(c)

\* -------------------------------------------------------- the subprocess
\* cloudflared ends on its own
ProcExit(p) ==
    /\ alive[p]
    /\ Exited(p)
    /\ UNCHANGED <<tunnel, tmu, emitted, nspawned, gbuf, pc, ret, tmp, mu, storeVars, adminVars>>

\* ------------------------------------------- reader goroutines (app.go 245-270)
\* stderr.Read / stdout.Read returns n bytes: the live subprocess wrote a chunk
\* to that stream (the pipe is a rendezvous between the write and the read)
ReaderRead(p, s) ==
    /\ gpc[p][s] = "read"
    /\ alive[p]
    /\ emitted[p] < MaxChunks
    /\ \E output \in OutputChunks :
          gbuf' = [gbuf EXCEPT ![p][s] = output]
    /\ emitted' = [emitted EXCEPT ![p] = @ + 1]
    /\ gpc' = [gpc EXCEPT ![p][s] = "scan"]
    /\ UNCHANGED <<tunnel, tmu, alive, nspawned, pc, ret, tmp, mu, storeVars, adminVars>>

\* scanForURL without the assignment of the URL
ScanState_StatusOnly(output) == [tunnel EXCEPT !.Status = "running"]

\* the tunnel fields scanForURL leaves for a matching chunk (app.go 236-237)
ScanState(output) == [tunnel EXCEPT !.URL = ScanURL(output), !.Status = "running"]

\* scanForURL(output) (app.go 223-242): a chunk that does not match changes
\* nothing; for one that matches: Lock, URL and Status written, Unlock. The
\* loop then reads again, which fails at once if the subprocess is gone.
scanForURL(p, s) ==
    /\ gpc[p][s] = "scan"
    /\ IF ScanMatches(gbuf[p][s])
       THEN /\ TunnelFree
            /\ tunnel' = ScanState(gbuf[p][s])
       ELSE UNCHANGED tunnel
    /\ gpc' = [gpc EXCEPT ![p][s] = IF alive[p] THEN "read" ELSE "done"]
    /\ gbuf' = [gbuf EXCEPT ![p][s] = <<>>]
    /\ UNCHANGED <<tmu, alive, emitted, nspawned, pc, ret, tmp, mu, storeVars, adminVars>>

Reader(p, s) == ReaderRead(p, s) \/ scanForURL(p, s)

\* ------------------------------------------ exit watcher goroutine (app.go 273-280)
\* cmd.Wait() returns once the subprocess has exited
WatcherWait(p) ==
    /\ gpc[p].watch = "wait"
    /\ ~alive[p]
    /\ gpc' = [gpc EXCEPT ![p].watch = "lock"]
    /\ UNCHANGED <<tunnel, tmu, alive, emitted, nspawned, gbuf, pc, ret, tmp, mu, storeVars, adminVars>>

\* the tunnel fields the watcher leaves (app.go 276-278)
ExitedState == [tunnel EXCEPT !.Status = "stopped", !.URL = NoURL, !.process = 0]

\* Lock; Status, URL and process cleared; Unlock (app.go 275-279)
WatcherClear(p) ==
    /\ gpc[p].watch = "lock"
    /\ TunnelFree
    /\ tunnel' = ExitedState
    /\ gpc' = [gpc EXCEPT ![p].watch = "done"]
    /\ UNCHANGED <<tmu, alive, emitted, nspawned, gbuf, pc, ret, tmp, mu, storeVars, adminVars>>

Watcher(p) == WatcherWait(p) \/ WatcherClear(p)

\* ------------------------------------------------------------ specification
Next ==
    \/ \E c \in Clients : StartTunnel(c)
    \/ \E c \in Clients : StopTunnel(c)
    \/ \E c \in Clients : handleTunnelStatus(c)
    \/ \E c \in Clients : GetHealth(c)
    \/ \E c \in Clients : Respond(c)
    \/ \E p \in Procs : ProcExit(p)
    \/ \E p \in Procs, s \in Streams : Reader(p, s)
    \/ \E p \in Procs : Watcher(p)

Spec == Init /\ [][Next]_vars

\* Go schedules every runnable goroutine: a reader or watcher that can take a
\* step takes it, and a handler that was called runs to its response. Nothing
\* obliges a client to call, or cloudflared to exit.
Fairness ==
    /\ \A p \in Procs, s \in Streams : WF_vars(Reader(p, s))
    /\ \A p \in Procs : WF_vars(Watcher(p))
    /\ \A c \in Clients : WF_vars(StartSpawnFail(c) \/ StartSpawnOk(c))
    /\ \A c \in Clients : WF_vars(HealthSecond(c))
    /\ \A c \in Clients : WF_vars(Respond(c))

FairSpec == Init /\ [][Next]_vars /\ Fairness

\* ============================================================ State Store
\* -------------------------------------------------- handleChatCompletions
\* the writers of a.stats go ahead without a.mu
WriteLock_Missing(t) == UNCHANGED mu

\* a.mu.Lock() of the writers of a.stats (app.go 577, 613, 637)
WriteLock(t) == Lock(t)

\* the snapshot is taken without a.mu
SnapshotLock_Missing(t) == UNCHANGED mu

\* a.mu.RLock() of the snapshot (app.go 463)
SnapshotLock(t) == RLock(t)

\* the snapshot's read lock is kept
SnapshotUnlock_Missing(t) == UNCHANGED mu

\* a.mu.RUnlock() of the snapshot (app.go 466)
SnapshotUnlock(t) == mu' = [mu EXCEPT !.readers = @ \ {t}]

\* logError(msg, code) is called (app.go 469, 478, 485, 563)
CallLogError(h, msg, code) ==
    /\ hpc' = [hpc EXCEPT ![h] = "err_load"]
    /\ hloc' = [hloc EXCEPT ![h].msg = msg, ![h].code = code, ![h].config = NoConfig,
                            ![h].out = NoOut]
    /\ issued' = [issued EXCEPT !.ErrorCount = @ + 1]

\* app.go 463-464: RLock; apiKey := a.config.APIKey
ChatSnapKey(h) ==
    /\ hpc[h] = "idle"
    /\ nreq < limit.req
    /\ SnapshotLock(Handler(h))
    /\ nreq' = nreq + 1
    /\ hloc' = [hloc EXCEPT ![h].apiKey = config.APIKey]
    /\ hpc' = [hpc EXCEPT ![h] = "snap"]
    /\ UNCHANGED <<tunnelVars, adminVars, nerr, config, stats, nreset, issued, applied>>

\* a request without a credential is let through
KeyMissing_Never(apiKey) == FALSE

\* apiKey == "" (app.go 468)
KeyMissing(apiKey) == apiKey = ""

\* app.go 465-474: config := a.config; RUnlock; the test of apiKey
ChatSnapshot(h) ==
    /\ hpc[h] = "snap"
    /\ SnapshotUnlock(Handler(h))
    /\ IF KeyMissing(hloc[h].apiKey)
       THEN CallLogError(h, NoKeyMessage, 500)
       ELSE /\ hpc' = [hpc EXCEPT ![h] = "body"]
            /\ hloc' = [hloc EXCEPT ![h].config = config]
            /\ UNCHANGED issued
    /\ UNCHANGED <<tunnelVars, adminVars, nerr, config, stats, nreq, nreset, applied>>

\* app.go 476-524: the body is read and parsed, the outbound body built
ChatBody(h) ==
    /\ hpc[h] = "body"
    /\ \/ \E msg \in BodyFailMessages : CallLogError(h, msg, 400)
       \/ \E reqBody \in ChatBodies :
            /\ hpc' = [hpc EXCEPT ![h] = "call"]
            /\ hloc' = [hloc EXCEPT ![h].out = Translate(reqBody, hloc[h].config),
                                    ![h].config = NoConfig]
            /\ UNCHANGED issued
    /\ UNCHANGED <<tunnelVars, adminVars, nerr, mu, config, stats, nreq, nreset, applied>>

\* the handler's position once client.Do has returned a response: the relay
\* starts without the request being counted
AfterResponse_NotCounted == "branch"

\* app.go 575-577: on to the count of the request
AfterResponse == "msg_load"

\* app.go 561-575: client.Do fails, or returns a response
ChatCall(h) ==
    /\ hpc[h] = "call"
    /\ \/ /\ CallLogError(h, UpstreamFailMessage, UpstreamFailCode)
       \/ /\ \E st \in UpstreamStatuses :
                hloc' = [hloc EXCEPT ![h].up = st]
          /\ hpc' = [hpc EXCEPT ![h] = AfterResponse]
          /\ issued' = [issued EXCEPT !.MessageCount = @ + 1]
    /\ UNCHANGED <<tunnelVars, adminVars, nerr, mu, config, stats, nreq, nreset, applied>>

\* app.go 577-578: Lock; a.stats.MessageCount is loaded
ChatMsgLoad(h) ==
    /\ hpc[h] = "msg_load"
    /\ WriteLock(Handler(h))
    /\ hloc' = [hloc EXCEPT ![h].load = stats.MessageCount]
    /\ hpc' = [hpc EXCEPT ![h] = "msg_store"]
    /\ UNCHANGED <<tunnelVars, adminVars, nerr, config, stats, nreq, nreset, issued, applied>>

\* app.go 578-580: the incremented count is stored, LastRequestTime set; Unlock
ChatMsgStore(h) ==
    /\ hpc[h] = "msg_store"
    /\ stats' = [stats EXCEPT !.MessageCount = hloc[h].load + 1,
                              !.LastRequestTime = "t"]
    /\ applied' = [applied EXCEPT !.MessageCount = @ + 1]
    /\ Unlock(Handler(h))
    /\ hloc' = [hloc EXCEPT ![h].counted = TRUE]
    /\ hpc' = [hpc EXCEPT ![h] = "branch"]
    /\ UNCHANGED <<tunnelVars, adminVars, nerr, config, nreq, nreset, issued>>

\* app.go 582-584, 606: the branch on isStream
ChatBranch(h) ==
    /\ hpc[h] = "branch"
    /\ hpc' = [hpc EXCEPT ![h] = IF IsStream(hloc[h].out) THEN "relay" ELSE "parse"]
    /\ UNCHANGED <<tunnelVars, adminVars, nerr, mu, config, stats, hloc, nreq, nreset, issued, applied>>

\* app.go 584-605: the streaming relay copies the body to the caller and
\* touches no statistics
ChatRelay(h) ==
    /\ hpc[h] = "relay"
    /\ \E body \in UpstreamBodies :
          hloc' = [hloc EXCEPT ![h].sent = Streamed(body), ![h].body = body]
    /\ hpc' = [hpc EXCEPT ![h] = "respond"]
    /\ UNCHANGED <<tunnelVars, adminVars, nerr, mu, config, stats, nreq, nreset, issued, applied>>

\* app.go 607-612: the body is read and parsed, the usage object looked up
ChatParse(h) ==
    /\ hpc[h] = "parse"
    /\ \E body \in UpstreamBodies :
         LET u == ParseUsage(body) IN
         IF u.present
         THEN /\ hloc' = [hloc EXCEPT ![h].usage = u, ![h].body = body]
              /\ hpc' = [hpc EXCEPT ![h] = "tok_lock"]
              /\ issued' = AddUsage(issued, u)
         ELSE /\ hloc' = [hloc EXCEPT ![h].body = body]
              /\ hpc' = [hpc EXCEPT ![h] = "forward"]
              /\ UNCHANGED issued
    /\ UNCHANGED <<tunnelVars, adminVars, nerr, mu, config, stats, nreq, nreset, applied>>

\* app.go 613: Lock
ChatTokLock(h) ==
    /\ hpc[h] = "tok_lock"
    /\ WriteLock(Handler(h))
    /\ hloc' = [hloc EXCEPT ![h].k = NextField(hloc[h].usage, 1),
                            ![h].before = [k \in 1..3 |-> stats[TokenField[k]]]]
    /\ hpc' = [hpc EXCEPT ![h] = "tok"]
    /\ UNCHANGED <<tunnelVars, adminVars, nerr, config, stats, nreq, nreset, issued, applied>>

\* app.go 614-623: the counter of the next field present is loaded; with none
\* left, Unlock
ChatTokLoad(h) ==
    /\ hpc[h] = "tok"
    /\ IF hloc[h].k > 3
       THEN /\ Unlock(Handler(h))
            /\ hpc' = [hpc EXCEPT ![h] = "forward"]
            /\ UNCHANGED hloc
       ELSE /\ hloc' = [hloc EXCEPT ![h].load = stats[TokenField[hloc[h].k]]]
            /\ hpc' = [hpc EXCEPT ![h] = "tok_store"]
            /\ UNCHANGED mu
    /\ UNCHANGED <<tunnelVars, adminVars, nerr, config, stats, nreq, nreset, issued, applied>>

\* app.go 615, 618, 621: counter += int(field)
ChatTokStore(h) ==
    /\ hpc[h] = "tok_store"
    /\ LET k == hloc[h].k
           d == ToInt(hloc[h].usage.f[k].v)
       IN  /\ stats' = [stats EXCEPT ![TokenField[k]] = hloc[h].load + d]
           /\ applied' = [applied EXCEPT ![TokenField[k]] = @ + d]
           /\ hloc' = [hloc EXCEPT ![h].k = NextField(hloc[h].usage, k + 1)]
    /\ hpc' = [hpc EXCEPT ![h] = "tok"]
    /\ UNCHANGED <<tunnelVars, adminVars, nerr, mu, config, nreq, nreset, issued>>

\* app.go 626-628: the upstream status and the body as read are written
ChatForward(h) ==
    /\ hpc[h] = "forward"
    /\ hloc' = [hloc EXCEPT ![h].sent = Forwarded(hloc[h].up, hloc[h].body)]
    /\ hpc' = [hpc EXCEPT ![h] = "respond"]
    /\ UNCHANGED <<tunnelVars, adminVars, nerr, mu, config, stats, nreq, nreset, issued, applied>>

\* logError runs without a.mu
ErrorLock_Missing(t) == UNCHANGED mu

\* a.mu.Lock() of logError (app.go 637)
ErrorLock(t) == Lock(t)

\* logError, app.go 637-640: Lock; a.stats.ErrorCount is loaded
LogErrorLoad(h) ==
    /\ hpc[h] = "err_load"
    /\ ErrorLock(Handler(h))
    /\ hloc' = [hloc EXCEPT ![h].load = stats.ErrorCount]
    /\ hpc' = [hpc EXCEPT ![h] = "err_store"]
    /\ UNCHANGED <<tunnelVars, adminVars, nerr, config, stats, nreq, nreset, issued, applied>>

\* the entry logError builds (app.go 641-645); its Timestamp is the reading of
\* a clock that ticks with every entry
ErrorItem(msg, code, now) == [Timestamp |-> now, Message |-> msg, Code |-> code]

\* logError, app.go 640: the incremented count is stored
LogErrorStore(h) ==
    /\ hpc[h] = "err_store"
    /\ stats' = [stats EXCEPT !.ErrorCount = hloc[h].load + 1]
    /\ applied' = [applied EXCEPT !.ErrorCount = @ + 1]
    /\ hpc' = [hpc EXCEPT ![h] = "err_prepend"]
    /\ UNCHANGED <<tunnelVars, adminVars, nerr, mu, config, hloc, nreq, nreset, issued>>

\* logError, app.go 641-645: the entry is put in front of the log
LogErrorPrepend(h) ==
    /\ hpc[h] = "err_prepend"
    /\ nerr' = nerr + 1
    /\ stats' = [stats EXCEPT
                   !.ErrorLog = Prepend(@, ErrorItem(hloc[h].msg, hloc[h].code, nerr + 1))]
    /\ hpc' = [hpc EXCEPT ![h] = "err_cap"]
    /\ UNCHANGED <<tunnelVars, adminVars, mu, config, hloc, nreq, nreset, issued, applied>>

\* logError, app.go 647-650: the log is cut; the deferred Unlock
LogErrorCap(h) ==
    /\ hpc[h] = "err_cap"
    /\ stats' = [stats EXCEPT !.ErrorLog = Truncate(@)]
    /\ Unlock(Handler(h))
    /\ hpc' = [hpc EXCEPT ![h] = "reply"]
    /\ UNCHANGED <<tunnelVars, adminVars, nerr, config, hloc, nreq, nreset, issued, applied>>

logError(h) ==
    LogErrorLoad(h) \/ LogErrorStore(h) \/ LogErrorPrepend(h) \/ LogErrorCap(h)

\* app.go 470-473, 479-480, 486-487, 564-573: the error response is written
ChatErrorReply(h) ==
    /\ hpc[h] = "reply"
    /\ hloc' = [hloc EXCEPT ![h].sent = ErrorReply(hloc[h].msg, hloc[h].code)]
    /\ hpc' = [hpc EXCEPT ![h] = "respond"]
    /\ UNCHANGED <<tunnelVars, adminVars, nerr, mu, config, stats, nreq, nreset, issued, applied>>

\* the handler returns and net/http ends the response
ChatRespond(h) ==
    /\ hpc[h] = "respond"
    /\ hpc' = [hpc EXCEPT ![h] = "idle"]
    /\ hloc' = [hloc EXCEPT ![h] = HLocInit]
    /\ UNCHANGED <<tunnelVars, adminVars, nerr, mu, config, stats, nreq, nreset, issued, applied>>

handleChatCompletions(h) ==
    \/ ChatSnapKey(h) \/ ChatSnapshot(h) \/ ChatBody(h) \/ ChatCall(h)
    \/ ChatMsgLoad(h) \/ ChatMsgStore(h) \/ ChatBranch(h) \/ ChatRelay(h)
    \/ ChatParse(h) \/ ChatTokLock(h) \/ ChatTokLoad(h) \/ ChatTokStore(h)
    \/ ChatForward(h) \/ logError(h) \/ ChatErrorReply(h) \/ ChatRespond(h)

\* the record is replaced without waiting for a.mu
ResetExclusive_Not == TRUE

\* a.mu.Lock() of handleResetStats can be taken (app.go 409)
ResetExclusive == MuFree

\* app.go 409-414: Lock; the whole record replaced; Unlock
handleResetStats ==
    /\ nreset < limit.reset
    /\ ResetExclusive
    /\ stats' = StatsInit
    /\ applied' = ZeroSums
    /\ nreset' = nreset + 1
    /\ UNCHANGED <<tunnelVars, adminVars, nerr, mu, config, hpc, hloc, nreq, issued>>

StoreInit ==
    /\ TunnelIdle /\ StoreIdle /\ AdminIdle
    /\ limit = StoreLimit
    /\ \E key \in {"", "nvapi-1"} : config = ConfigInit(key)

StoreNext ==
    \/ \E h \in Handlers : handleChatCompletions(h)
    \/ handleResetStats

StoreSpec == StoreInit /\ [][StoreNext]_vars

\* ===================================================== /api handlers on a.mu
\* the bodies POST /api/config/save decodes into a Config (app.go 327-331): a
\* key that is missing leaves the field at its zero value
SaveBodies ==
    { [LogRequests |-> FALSE, MaxTokens |-> 0, Temperature |-> "0", StreamingEnabled |-> FALSE,
       CurrentModel |-> m, APIKey |-> k] : m \in {"", "m1"}, k \in {"", "nvapi-2"} }
ModelBodies == {"", "m2"}
KeyBodies == {"", "nvapi-3"}

\* a decoder fails (app.go 328-331, 359-362, 382-385): 400, nothing written
DecodeFail(a) ==
    /\ apc[a] = "idle"
    /\ ncfg < limit.cfg
    /\ ncfg' = ncfg + 1
    /\ apc' = [apc EXCEPT ![a] = "respond"]
    /\ aloc' = [aloc EXCEPT ![a].success = FALSE]
    /\ UNCHANGED <<tunnelVars, storeVars, mu, limit, disk, treq, relay, scan>>

\* app.go 327-331: the body of a config save is decoded
SaveDecode(a) ==
    /\ apc[a] = "idle"
    /\ ncfg < limit.cfg
    /\ ncfg' = ncfg + 1
    /\ \E cfg \in SaveBodies : aloc' = [aloc EXCEPT ![a].cfg = cfg, ![a].req = cfg.APIKey]
    /\ apc' = [apc EXCEPT ![a] = "save_lock"]
    /\ UNCHANGED <<tunnelVars, storeVars, mu, limit, disk, treq, relay, scan>>

\* an empty credential of the body is stored as it is
MergeKey_Overwrites(cfg, stored) == cfg

\* app.go 334-336: an empty credential of the body is replaced by the stored one
MergeKey(cfg, stored) ==
    IF cfg.APIKey = "" THEN [cfg EXCEPT !.APIKey = stored.APIKey] ELSE cfg

\* app.go 333-336: Lock; the credential is merged into cfg
SaveLock(a) ==
    /\ apc[a] = "save_lock"
    /\ Lock(Caller(a))
    /\ aloc' = [aloc EXCEPT ![a].cfg = MergeKey(@, config)]
    /\ apc' = [apc EXCEPT ![a] = "save_store"]
    /\ UNCHANGED <<tunnelVars, storeVars, limit, ncfg, disk, treq, relay, scan>>

\* app.go 337-338: a.config = cfg; Unlock
SaveStore(a) ==
    /\ apc[a] = "save_store"
    /\ config' = aloc[a].cfg
    /\ Unlock(Caller(a))
    /\ apc' = [apc EXCEPT ![a] = "persist"]
    /\ UNCHANGED <<tunnelVars, stats, hpc, hloc, nreq, nreset, issued, applied, nerr,
                   limit, ncfg, aloc, disk, treq, relay, scan>>

\* app.go 356-362: the body of a set-model call is decoded
ModelDecode(a) ==
    /\ apc[a] = "idle"
    /\ ncfg < limit.cfg
    /\ ncfg' = ncfg + 1
    /\ \E m \in ModelBodies : aloc' = [aloc EXCEPT ![a].req = m]
    /\ apc' = [apc EXCEPT ![a] = "model_store"]
    /\ UNCHANGED <<tunnelVars, storeVars, mu, limit, disk, treq, relay, scan>>

\* app.go 364-366: Lock; a.config.CurrentModel = req.Model; Unlock
ModelStore(a) ==
    /\ apc[a] = "model_store"
    /\ MuFree
    /\ config' = [config EXCEPT !.CurrentModel = aloc[a].req]
    /\ apc' = [apc EXCEPT ![a] = "persist"]
    /\ UNCHANGED <<tunnelVars, stats, hpc, hloc, nreq, nreset, issued, applied, nerr,
                   mu, limit, ncfg, aloc, disk, treq, relay, scan>>

\* app.go 379-385: the body of a set-credential call is decoded
KeyDecode(a) ==
    /\ apc[a] = "idle"
    /\ ncfg < limit.cfg
    /\ ncfg' = ncfg + 1
    /\ \E k \in KeyBodies : aloc' = [aloc EXCEPT ![a].req = k]
    /\ apc' = [apc EXCEPT ![a] = "key_store"]
    /\ UNCHANGED <<tunnelVars, storeVars, mu, limit, disk, treq, relay, scan>>

\* app.go 387-389: Lock; a.config.APIKey = req.Key; Unlock
KeyStore(a) ==
    /\ apc[a] = "key_store"
    /\ MuFree
    /\ config' = [config EXCEPT !.APIKey = aloc[a].req]
    /\ apc' = [apc EXCEPT ![a] = "persist"]
    /\ UNCHANGED <<tunnelVars, stats, hpc, hloc, nreq, nreset, issued, applied, nerr,
                   mu, limit, ncfg, aloc, disk, treq, relay, scan>>

\* saveSettings, app.go 123-125: RLock; a.config is marshalled; RUnlock
PersistMarshal(a) ==
    /\ apc[a] = "persist"
    /\ mu.writer = NoHolder
    /\ aloc' = [aloc EXCEPT ![a].cfg = config]
    /\ apc' = [apc EXCEPT ![a] = "write"]
    /\ UNCHANGED <<tunnelVars, storeVars, mu, limit, ncfg, disk, treq, relay, scan>>

\* saveSettings, app.go 130-131: os.WriteFile stores the data or fails; the
\* handler's success is whether it returned nil (app.go 340-347, 368, 391)
PersistWrite(a) ==
    /\ apc[a] = "write"
    /\ \/ /\ disk' = [present |-> TRUE, data |-> aloc[a].cfg]
          /\ aloc' = [aloc EXCEPT ![a].success = TRUE, ![a].cfg = NoConfig]
       \/ /\ UNCHANGED disk
          /\ aloc' = [aloc EXCEPT ![a].success = FALSE, ![a].cfg = NoConfig]
    /\ apc' = [apc EXCEPT ![a] = "respond"]
    /\ UNCHANGED <<tunnelVars, storeVars, mu, limit, ncfg, treq, relay, scan>>

saveSettings(a) == PersistMarshal(a) \/ PersistWrite(a)

\* the response {"success": ..} is written and the handler returns
AdminRespond(a) ==
    /\ apc[a] = "respond"
    /\ apc' = [apc EXCEPT ![a] = "idle"]
    /\ aloc' = [aloc EXCEPT ![a] = ALocInit]
    /\ UNCHANGED <<tunnelVars, storeVars, mu, limit, ncfg, disk, treq, relay, scan>>

handleSaveConfig(a) == SaveDecode(a) \/ SaveLock(a) \/ SaveStore(a)
handleSetModel(a) == ModelDecode(a) \/ ModelStore(a)
handleSetAPIKey(a) == KeyDecode(a) \/ KeyStore(a)

\* ------------------------------------------- handleConfig and handleStats
\* the three token counters of a statistics record
Tokens(s) == [k \in 1..3 |-> s[TokenField[k]]]

\* what a usage object adds to the three counters (app.go 614-622)
UsageDelta(u) == [k \in 1..3 |-> IF u.f[k].ok THEN ToInt(u.f[k].v) ELSE 0]

\* the counters hold a part of a usage increment: a handler is between its
\* Lock and Unlock (app.go 613-623) and has added some fields but not all
PartialTokens ==
    \E h \in Handlers :
        /\ hpc[h] \in {"tok", "tok_store"}
        /\ Tokens(stats) # hloc[h].before
        /\ Tokens(stats) # [k \in 1..3 |-> hloc[h].before[k] + UsageDelta(hloc[h].usage)[k]]

\* app.go 315 and 397: a.mu.RLock() of a read endpoint
ReadLock(a, what) ==
    /\ apc[a] = "idle"
    /\ RLock(Caller(a))
    /\ aloc' = [aloc EXCEPT ![a].what = what]
    /\ apc' = [apc EXCEPT ![a] = "encode"]
    /\ UNCHANGED <<tunnelVars, storeVars, limit, ncfg, disk, treq, relay, scan>>

\* app.go 318 and 400: json.NewEncoder(w).Encode(..) reads the record and
\* writes it to the connection while the read lock is held; the write returns
\* once the bytes are buffered, or blocks until the caller takes them
ReadEncode(a, what) ==
    /\ apc[a] = "encode" /\ aloc[a].what = what
    /\ aloc' = [aloc EXCEPT ![a].partial = (what = "stats" /\ PartialTokens)]
    /\ \E to \in {"unlock", "blocked"} : apc' = [apc EXCEPT ![a] = to]
    /\ UNCHANGED <<tunnelVars, storeVars, mu, limit, ncfg, disk, treq, relay, scan>>

\* the caller takes the bytes of its response
CallerReceive(a) ==
    /\ apc[a] = "blocked"
    /\ apc' = [apc EXCEPT ![a] = "unlock"]
    /\ UNCHANGED <<tunnelVars, storeVars, mu, limit, ncfg, aloc, disk, treq, relay, scan>>

\* defer a.mu.RUnlock() (app.go 316, 398) as the handler returns
ReadUnlock(a, what) ==
    /\ apc[a] = "unlock" /\ aloc[a].what = what
    /\ RUnlock(Caller(a))
    /\ apc' = [apc EXCEPT ![a] = "idle"]
    /\ aloc' = [aloc EXCEPT ![a] = ALocInit]
    /\ UNCHANGED <<tunnelVars, storeVars, limit, ncfg, disk, treq, relay, scan>>

\* app.go 314-319
handleConfig(a) == ReadLock(a, "config") \/ ReadEncode(a, "config") \/ ReadUnlock(a, "config")

\* app.go 396-401
handleStats(a) == ReadLock(a, "stats") \/ ReadEncode(a, "stats") \/ ReadUnlock(a, "stats")

\* ------------------------------------------------- configuration specification
\* the /api handlers of the configuration, and the two read endpoints
ConfigLimit == [req |-> 0, reset |-> 0, cfg |-> MaxConfigOps]

ConfigSpecInit ==
    /\ TunnelIdle /\ StoreIdle /\ AdminIdle
    /\ limit = ConfigLimit
    /\ \E key \in {"", "nvapi-1"} : config = ConfigInit(key)

ConfigNext ==
    \/ \E a \in Admins : handleSaveConfig(a)
    \/ \E a \in Admins : handleSetModel(a)
    \/ \E a \in Admins : handleSetAPIKey(a)
    \/ \E a \in Admins : DecodeFail(a)
    \/ \E a \in Admins : saveSettings(a)
    \/ \E a \in Admins : AdminRespond(a)
    \/ \E a \in Admins : handleConfig(a)
    \/ \E a \in Admins : handleStats(a)
    \/ \E a \in Admins : CallerReceive(a)

ConfigSpec == ConfigSpecInit /\ [][ConfigNext]_vars

\* the same with Go's scheduling: a handler that can take a step takes it,
\* and a handler waiting in a.mu.Lock() gets the lock once it is free at some
\* moment (a waiting writer keeps new readers out). Nothing obliges a caller to
\* call, or to take the bytes of its response.
IOFairness ==
    \A a \in Admins :
        /\ SF_vars(SaveLock(a))
        /\ WF_vars(SaveStore(a))
        /\ SF_vars(ModelStore(a))
        /\ SF_vars(KeyStore(a))
        /\ SF_vars(PersistMarshal(a))
        /\ WF_vars(PersistWrite(a))
        /\ WF_vars(AdminRespond(a))
        /\ WF_vars(ReadEncode(a, "config") \/ ReadUnlock(a, "config"))
        /\ WF_vars(ReadEncode(a, "stats") \/ ReadUnlock(a, "stats"))

IOSpec == ConfigSpecInit /\ [][ConfigNext]_vars /\ IOFairness

\* ------------------------------------------------------- read specification
\* one chat-completion request next to the /api handlers
ReadLimit == [req |-> 1, reset |-> 0, cfg |-> 1]

ReadInit ==
    /\ TunnelIdle /\ StoreIdle /\ AdminIdle
    /\ limit = ReadLimit
    /\ \E key \in {"", "nvapi-1"} : config = ConfigInit(key)

ReadNext ==
    \/ ConfigNext
    \/ \E h \in Handlers : handleChatCompletions(h)

ReadSpec == ReadInit /\ [][ReadNext]_vars

\* ---------------------------------------------------- error log specification
\* requests that fail for want of a credential, and resets: the steps such a
\* request takes (app.go 463-473 and logError)
LogLimit == [req |-> MaxErrors, reset |-> MaxResets, cfg |-> 0]

LogInit ==
    /\ TunnelIdle /\ StoreIdle /\ AdminIdle
    /\ limit = LogLimit
    /\ config = ConfigInit("")

LogNext ==
    \/ \E h \in Handlers : ChatSnapKey(h) \/ ChatSnapshot(h)
    \/ \E h \in Handlers : logError(h)
    \/ \E h \in Handlers : ChatErrorReply(h) \/ ChatRespond(h)
    \/ handleResetStats

LogSpec == LogInit /\ [][LogNext]_vars

\* ------------------------------------------------ abort specification
\* chat-completion requests with and without a credential stored, next to
\* one caller of /api/apikey
AbortLimit == [req |-> MaxAborts, reset |-> 0, cfg |-> 1]

AbortInit ==
    /\ TunnelIdle /\ StoreIdle /\ AdminIdle
    /\ limit = AbortLimit
    /\ \E key \in {"", "nvapi-1"} : config = ConfigInit(key)

AbortNext ==
    \/ \E h \in Handlers : handleChatCompletions(h)
    \/ handleSetAPIKey(1)
    \/ saveSettings(1)
    \/ AdminRespond(1)

AbortSpec == AbortInit /\ [][AbortNext]_vars

\* ---------------------------------------------------- relay specification
\* The streaming branch of handleChatCompletions (app.go 584-605) with the
\* deferred resp.Body.Close() (app.go 575). relay.up is what the upstream has
\* still to send, relay.read and relay.written the bytes read from it and
\* handed to w.Write so far, relay.open whether the caller is still connected,
\* relay.failed whether a w.Write has returned an error.
Bytes == {"a", "b"}
RelayBodies == UNION { [1..n -> Bytes] : n \in 0..MaxBody }

RelayLimit == [req |-> 0, reset |-> 0, cfg |-> 0]

RelayInit ==
    /\ TunnelIdle /\ StoreIdle
    /\ ncfg = 0
    /\ apc = [a \in Admins |-> "idle"]
    /\ aloc = [a \in Admins |-> ALocInit]
    /\ disk = NoDisk
    /\ treq = NoTreq
    /\ scan = NoScan
    /\ limit = RelayLimit
    /\ config = ConfigInit("nvapi-1")
    /\ \E b \in RelayBodies : relay = [NoRelay EXCEPT !.pc = "read", !.up = b]

\* n, err := resp.Body.Read(buf) (app.go 597): up to MaxRead bytes, with or
\* without an error; when nothing is left the read reports the end
RelayRead ==
    /\ relay.pc = "read"
    /\ \E k \in 0..MaxRead, e \in BOOLEAN :
          /\ k <= Len(relay.up)
          /\ relay.up = <<>> => e
          /\ relay' = [relay EXCEPT
                          !.pc = "write",
                          !.n = SubSeq(relay.up, 1, k),
                          !.up = SubSeq(relay.up, k + 1, Len(relay.up)),
                          !.err = e,
                          !.read = @ \o SubSeq(relay.up, 1, k),
                          !.chunks = IF k > 0 THEN @ + 1 ELSE @]
    /\ UNCHANGED <<tunnelVars, mu, storeVars, limit, ncfg, apc, aloc, disk, treq, scan>>

\* a chunk that came with the end or an error is not written
ShouldWrite_NoErr(n, err) == n # <<>> /\ ~err

\* n > 0 (app.go 598)
ShouldWrite(n, err) == n # <<>>

\* app.go 598-604: w.Write(buf[:n]), whose result is not looked at, and
\* flusher.Flush(); then the test of err
RelayWrite ==
    /\ relay.pc = "write"
    /\ relay' = [relay EXCEPT
                    !.pc = IF relay.err THEN "close" ELSE "read",
                    !.written = IF ShouldWrite(relay.n, relay.err) THEN @ \o relay.n ELSE @,
                    !.flushes = IF ShouldWrite(relay.n, relay.err) THEN @ + 1 ELSE @,
                    !.failed = @ \/ (ShouldWrite(relay.n, relay.err) /\ ~relay.open)]
    /\ UNCHANGED <<tunnelVars, mu, storeVars, limit, ncfg, apc, aloc, disk, treq, scan>>

\* the handler returns: the deferred resp.Body.Close() (app.go 575)
RelayClose ==
    /\ relay.pc = "close"
    /\ relay' = [relay EXCEPT !.pc = "done", !.closed = TRUE]
    /\ UNCHANGED <<tunnelVars, mu, storeVars, limit, ncfg, apc, aloc, disk, treq, scan>>

\* the caller closes its connection while the relay runs
CallerGone ==
    /\ relay.pc \in {"read", "write"}
    /\ relay.open
    /\ relay' = [relay EXCEPT !.open = FALSE]
    /\ UNCHANGED <<tunnelVars, mu, storeVars, limit, ncfg, apc, aloc, disk, treq, scan>>

RelayNext == RelayRead \/ RelayWrite \/ RelayClose \/ CallerGone

RelaySpec == RelayInit /\ [][RelayNext]_vars

\* ----------------------------------------------------- scan specification
\* scanForURL (app.go 223-242) applied to one chunk after another; scan.URL
\* and scan.Status are the tunnel fields it writes.
ScanTokens == {HTTPS, MARKER, " ", "\n", "."}
ScanChunks == UNION { [1..n -> ScanTokens] : n \in 0..MaxChunkLen }

ScanLimit == [req |-> 0, reset |-> 0, cfg |-> 0]

ScanInit ==
    /\ TunnelIdle /\ StoreIdle
    /\ ncfg = 0
    /\ apc = [a \in Admins |-> "idle"]
    /\ aloc = [a \in Admins |-> ALocInit]
    /\ disk = NoDisk
    /\ treq = NoTreq
    /\ relay = NoRelay
    /\ limit = ScanLimit
    /\ config = ConfigInit("nvapi-1")
    /\ scan = NoScan

\* output := string(buf[:n]); scanForURL(output) (app.go 252-254, 266-268)
ScanApply ==
    /\ scan.n < MaxScans
    /\ \E output \in ScanChunks :
          scan' = IF ScanMatches(output)
                  THEN [URL |-> ScanURL(output), Status |-> "running",
                        chunk |-> output, n |-> scan.n + 1]
                  ELSE [scan EXCEPT !.chunk = output, !.n = @ + 1]
    /\ UNCHANGED <<tunnelVars, mu, storeVars, limit, ncfg, apc, aloc, disk, treq, relay>>

ScanSpec == ScanInit /\ [][ScanApply]_vars

\* ---------------------------------------------------- translator specification
\* configuration snapshots a request may work with
TranslateConfigs ==
    { [ConfigInit("nvapi-1") EXCEPT !.CurrentModel = m, !.StreamingEnabled = st,
                                    !.MaxTokens = mt] :
        m \in {"deepseek-ai/deepseek-v3.2", "m1"}, st \in BOOLEAN, mt \in {0, 4096} }

TranslateLimit == [req |-> 0, reset |-> 0, cfg |-> 0]

TranslateInit ==
    /\ TunnelIdle /\ StoreIdle
    /\ ncfg = 0
    /\ apc = [a \in Admins |-> "idle"]
    /\ aloc = [a \in Admins |-> ALocInit]
    /\ disk = NoDisk
    /\ limit = TranslateLimit
    /\ config = ConfigInit("nvapi-1")
    /\ relay = NoRelay
    /\ scan = NoScan
    /\ \E b \in Bodies, e \in ExtraBodies, c \in TranslateConfigs :
          treq = [body |-> b, extra |-> e, config |-> c, out |-> NoOut,
                  pass |-> NoFields, done |-> FALSE]

\* app.go 490-524 applied to the body and the snapshot
TranslateStep ==
    /\ ~treq.done
    /\ treq' = [treq EXCEPT !.out = Translate(treq.body, treq.config),
                            !.pass = Passthrough(treq.extra), !.done = TRUE]
    /\ UNCHANGED <<tunnelVars, mu, storeVars, limit, ncfg, apc, aloc, disk, relay, scan>>

TranslateSpec == TranslateInit /\ [][TranslateStep]_vars

\* ================================================================== claims
LiveProcs == {p \in Procs : alive[p]}
Cleared == [URL |-> NoURL, Status |-> "stopped", process |-> 0]

\* C1: with a.tunnel.mu free, Status "running" implies a non-empty URL and a
\* stored process handle.
C1_RunningHasURLAndHandle ==
    (TunnelFree /\ tunnel.Status = "running")
        => (tunnel.URL # NoURL /\ tunnel.process # 0)

\* C2: with a.tunnel.mu free, Status "stopped" implies an empty URL and no
\* stored process handle.
C2_StoppedIsCleared ==
    (TunnelFree /\ tunnel.Status = "stopped")
        => (tunnel.URL = NoURL /\ tunnel.process = 0)

\* C3: at most one spawned tunnel subprocess is alive at any moment.
C3_AtMostOneAlive == Cardinality(LiveProcs) <= 1

\* C4: no response of the tunnel status endpoint or of GetHealth carries
\* status "running" together with an empty URL.
C4_NoRunningWithEmptyURL ==
    \A c \in Clients :
        ret[c].op \in {"status", "health"}
            => ~(ret[c].status = "running" /\ ret[c].url = NoURL)

\* C5: the status changes only along the documented transitions: "stopped" is
\* left only for "starting" (by a start call), and "running" is entered only
\* from "starting".
C5_DocumentedTransitions ==
    [][ /\ (tunnel.Status = "stopped" /\ tunnel'.Status # "stopped")
            => (tunnel'.Status = "starting" /\ \E c \in Clients : StartCheck(c))
        /\ (tunnel.Status # "running" /\ tunnel'.Status = "running")
            => tunnel.Status = "starting" ]_vars

\* every subprocess has exited, every goroutine has finished and no handler
\* is at work: nothing changes the tunnel fields any more unless a client calls
Quiesced ==
    /\ nspawned > 0 /\ LiveProcs = {}
    /\ \A p \in 1..nspawned : \A r \in Roles : gpc[p][r] = "done"
    /\ \A c \in Clients : pc[c] = "idle"
    /\ TunnelFree

\* C6: after the subprocess has exited, with no start called afterwards, the
\* tunnel state ends up "stopped" with empty URL and no handle and stays so:
\* once the goroutines have run to their end, this is the state they leave.
C6_ExitedThenStopped == Quiesced => tunnel = Cleared

\* C7: a start call on a running tunnel spawns nothing, leaves the tunnel
\* fields as they are and returns "running" with the stored URL.
C7_StartWhileRunningIsNoOp ==
    [][ \A c \in Clients :
          (StartCheck(c) /\ tunnel.Status = "running")
              => /\ UNCHANGED <<tunnel, nspawned, alive>>
                 /\ pc'[c] = "respond"
                 /\ ret'[c] = [op |-> "start", success |-> TRUE, status |-> "running",
                               url |-> tunnel.URL, err |-> ""] ]_vars

C7_Witness ==
    \E c \in Clients :
        /\ pc[c] = "respond" /\ ret[c].op = "start"
        /\ ret[c].status = "running" /\ ret[c].url # NoURL
        /\ tunnel.Status = "running" /\ tunnel.URL = ret[c].url

\* C8: StopTunnel can be called in any tunnel state, returns true and leaves
\* status "stopped", URL empty, no handle; a process whose handle was stored is
\* killed; a second stop right after changes nothing.
C8_StopClearsAndKills ==
    /\ [](\A c \in Clients : (pc[c] = "idle" /\ TunnelFree) => ENABLED StopTunnel(c))
    /\ [][ \A c \in Clients :
             StopTunnel(c)
                 => /\ tunnel' = Cleared
                    /\ pc'[c] = "respond" /\ ret'[c].op = "stop" /\ ret'[c].success
                    /\ tunnel.process # 0 => ~alive'[tunnel.process]
                    /\ tunnel = Cleared => UNCHANGED <<tunnel, alive>> ]_vars

C8_Witness ==
    \E c \in Clients, p \in Procs :
        /\ pc[c] = "respond" /\ ret[c].op = "stop" /\ ret[c].success
        /\ gpc[p].watch = "wait" /\ ~alive[p]
        /\ tunnel = Cleared

AllHandlersIdle == \A h \in Handlers : hpc[h] = "idle"

\* C9: with no reset, once every request and logError has completed, each of
\* the five counters equals the sum of the increments that were made for it,
\* whatever the interleaving.
C9_CountsAreSums ==
    (nreset = 0 /\ AllHandlersIdle)
        => \A f \in Counters : stats[f] = issued[f]

C9_Witness ==
    /\ nreset = 0 /\ AllHandlersIdle
    /\ nreq = MaxRequests
    /\ stats.MessageCount >= 2 /\ stats.ErrorCount >= 1
    /\ stats.PromptTokens >= 3 /\ stats.TotalTokens >= 4

\* C10: an increment is applied exactly once to the record that is current
\* when it is made: whenever no writer holds a.mu, every counter of the current
\* record equals the sum of the increments made since the last reset.
C10_IncrementsOnCurrentRecord ==
    mu.writer = NoHolder => \A f \in Counters : stats[f] = applied[f]

\* a request counted before the reset adds its tokens after it
C10_Witness ==
    /\ nreset >= 1
    /\ \E h \in Handlers : hpc[h] = "respond" /\ hloc[h].usage.present
    /\ stats.MessageCount = 0 /\ stats.TotalTokens > 0
    /\ issued.MessageCount >= 1

\* C11: a config save whose credential field is empty leaves the stored
\* credential as it was; one whose credential field is not empty stores the
\* supplied credential.
C11_SaveKeepsOrReplacesKey ==
    [][ \A a \in Admins :
          SaveStore(a)
              => config'.APIKey = (IF aloc[a].req = "" THEN config.APIKey ELSE aloc[a].req)
      ]_vars

\* a save with an empty credential field has been stored over a credential
C11_Witness ==
    \E a \in Admins :
        /\ apc[a] = "persist" /\ aloc[a].cfg \in {MergeKey(b, config) : b \in SaveBodies}
        /\ aloc[a].req = "" /\ config = aloc[a].cfg
        /\ config.APIKey # "" /\ config.CurrentModel = "m1"

\* C12: no configuration update replaces a stored non-empty credential by an
\* empty one.
C12_KeyNeverEmptied ==
    [][ config.APIKey # "" => config'.APIKey # "" ]_vars

\* C13: once an error recording or a reset is done (a.mu is not held for
\* writing), the error log holds at most 50 entries, most recent first: its
\* first entry is the error recorded last, every entry was recorded just
\* after the one that follows it, and the log holds all the errors recorded
\* since the last reset, or the 50 most recent of them.
C13_LogCappedNewestFirst ==
    LET log == stats.ErrorLog IN
    mu.writer = NoHolder =>
    /\ Len(log) <= 50
    /\ Len(log) = (IF stats.ErrorCount > 50 THEN 50 ELSE stats.ErrorCount)
    /\ \A i \in 1..Len(log) : log[i].Timestamp = nerr - (i - 1)

\* more than 50 errors were recorded after a reset that dropped earlier ones
C13_Witness ==
    /\ mu.writer = NoHolder
    /\ nreset = 1 /\ nerr > stats.ErrorCount
    /\ stats.ErrorCount > 50 /\ Len(stats.ErrorLog) = 50
    /\ stats.ErrorLog[50].Timestamp = nerr - 49

\* C14: no read of the State Store sees a partial write: the credential and
\* the configuration of a request's snapshot are of one configuration version,
\* and no statistics read sees token counters holding a part of one
\* response's usage increment.
C14_ReadsSeeWholeWrites ==
    /\ \A h \in Handlers : hpc[h] = "body" => hloc[h].apiKey = hloc[h].config.APIKey
    /\ \A a \in Admins : ~aloc[a].partial

\* a statistics read holds a.mu while a handler waits to add its usage, the
\* credential having been replaced since that handler's snapshot
C14_Witness ==
    \E a \in Admins, h \in Handlers :
        /\ apc[a] = "blocked" /\ aloc[a].what = "stats"
        /\ hpc[h] = "tok_lock" /\ hloc[h].usage.present
        /\ hloc[h].apiKey = "nvapi-1" /\ config.APIKey = "nvapi-3"

\* C15: every configuration write that a handler has set out to make is made
\* in the end, whatever the callers of the read endpoints do.
C15_WritesComplete ==
    \A a \in Admins :
        (apc[a] \in {"save_lock", "model_store", "key_store"}) ~> (apc[a] = "persist")

\* a usage object whose three fields are numbers
AllNumeric(u) == u.present /\ \A k \in 1..3 : u.f[k].ok

\* x, a number of halves, cut to a whole number of halves toward zero
Truncated(x, d) == IF x >= 0 THEN 2 * d <= x /\ x < 2 * d + 2
                             ELSE x <= 2 * d /\ 2 * d - 2 < x

C17_NoUsageStillForwarded ==
    [][ \A h \in Handlers :
          /\ (ChatParse(h) /\ hloc'[h].body.kind # "usage")
                => hpc'[h] = "forward" /\ UNCHANGED stats
          /\ (ChatForward(h) /\ hloc[h].body.kind # "usage")
                => /\ UNCHANGED stats
                   /\ hloc'[h].sent.status = hloc[h].up
                   /\ hloc'[h].sent.kind = "upstream"
                   /\ hloc'[h].sent.raw = hloc[h].body
      ]_vars

\* a body that is no JSON came with status 429 and was forwarded, no token counted
C17_Witness ==
    \E h \in Handlers :
        /\ hpc[h] = "respond" /\ hloc[h].body.kind = "not json"
        /\ hloc[h].sent = Forwarded(429, hloc[h].body)
        /\ stats.MessageCount >= 1 /\ Tokens(stats) = <<0, 0, 0>>

\* a step of handler h
StepOf(h) == hpc'[h] # hpc[h] \/ hloc'[h] # hloc[h]

\* C18: a request whose outbound call returned a response, whatever its
\* status, adds one to the message count and sets the last-request time before
\* anything is sent to the caller, and records no error.
C18_CountedBeforeRelay ==
    /\ [](\A h \in Handlers :
            (hloc[h].up # 0 /\ hpc[h] \notin {"msg_load", "msg_store"}) => hloc[h].counted)
    /\ [][ \A h \in Handlers :
             /\ ChatMsgStore(h)
                   => /\ stats'.MessageCount = stats.MessageCount + 1
                      /\ stats'.LastRequestTime = "t"
                      /\ ~hloc[h].counted /\ hloc[h].sent = NoSent
             /\ (hloc[h].up # 0 /\ hloc'[h].sent # hloc[h].sent /\ hloc[h].sent = NoSent)
                   => hloc[h].counted
             /\ (hloc[h].up # 0 /\ StepOf(h))
                   => /\ stats'.ErrorCount = stats.ErrorCount
                      /\ stats'.ErrorLog = stats.ErrorLog
                      /\ hpc'[h] \notin {"err_load", "err_store", "err_prepend", "err_cap", "reply"}
                      /\ ~ChatMsgStore(h) => stats'.MessageCount = stats.MessageCount
       ]_vars

\* a response with status 429 was counted and streamed, and no error recorded
C18_Witness ==
    \E h \in Handlers :
        /\ hpc[h] = "respond" /\ hloc[h].up = 429 /\ hloc[h].sent.kind = "stream"
        /\ hloc[h].counted /\ stats.MessageCount = 1 /\ stats.LastRequestTime = "t"
        /\ stats.ErrorCount = 0

\* C19: an outbound call that yields no response records one error entry
\* with code 500 and the error's message, adds one to the error count, sends
\* the caller status 500 with an error-shaped JSON body of code 500, relays
\* nothing and leaves the message count and the token counters alone.
C19_CallFailureLogged ==
    [][ \A h \in Handlers :
          /\ (ChatCall(h) /\ hloc'[h].up = 0)
                => /\ hpc'[h] = "err_load" /\ hloc'[h].msg = UpstreamFailMessage
                   /\ UNCHANGED stats
          /\ (hloc[h].msg = UpstreamFailMessage /\ StepOf(h))
                => /\ hloc'[h].up = 0
                   /\ stats'.MessageCount = stats.MessageCount
                   /\ Tokens(stats') = Tokens(stats)
                   /\ stats'.ErrorCount =
                         (IF LogErrorStore(h) THEN stats.ErrorCount + 1 ELSE stats.ErrorCount)
                   /\ IF LogErrorPrepend(h)
                      THEN /\ Len(stats'.ErrorLog) = Len(stats.ErrorLog) + 1
                           /\ stats'.ErrorLog[1].Message = UpstreamFailMessage
                           /\ stats'.ErrorLog[1].Code = 500
                           /\ \A i \in 2..Len(stats'.ErrorLog) :
                                 stats'.ErrorLog[i] = stats.ErrorLog[i - 1]
                      ELSE IF LogErrorCap(h)
                      THEN /\ Len(stats'.ErrorLog) =
                                 (IF Len(stats.ErrorLog) < 50 THEN Len(stats.ErrorLog) ELSE 50)
                           /\ \A i \in 1..Len(stats'.ErrorLog) :
                                 stats'.ErrorLog[i] = stats.ErrorLog[i]
                      ELSE stats'.ErrorLog = stats.ErrorLog
                   /\ hloc'[h].sent # hloc[h].sent
                         => /\ ChatErrorReply(h) \/ ChatRespond(h)
                            /\ ChatErrorReply(h)
                                  => hloc'[h].sent =
                                       [status |-> 500, kind |-> "error json",
                                        msg |-> UpstreamFailMessage, type |-> "api_error",
                                        code |-> 500, raw |-> NoBody]
      ]_vars

\* the failure of an outbound call has been recorded and answered
C19_Witness ==
    \E h \in Handlers :
        /\ hpc[h] = "respond" /\ hloc[h].msg = UpstreamFailMessage
        /\ hloc[h].sent.status = 500 /\ hloc[h].sent.type = "api_error"
        /\ stats.ErrorCount = 1 /\ stats.ErrorLog[1].Message = UpstreamFailMessage
        /\ stats.MessageCount = 0

\* C20: the outbound body's model is the configured current model, its
\* messages value is the inbound one, and temperature, max_tokens and stream,
\* when the inbound body has none, are the configured defaults.
C20_TranslatorFields ==
    treq.done =>
        /\ treq.out.model = JStr(treq.config.CurrentModel)
        /\ treq.body.messages.t # "absent" => treq.out.messages = treq.body.messages
        /\ treq.body.temperature.t = "absent"
              => treq.out.temperature = JLit(treq.config.Temperature)
        /\ treq.body.max_tokens.t = "absent"
              => treq.out.max_tokens = JNum(2 * treq.config.MaxTokens)
        /\ treq.body.stream.t = "absent"
              => treq.out.stream = JBool(treq.config.StreamingEnabled)

C22_AllowListedVerbatim ==
    treq.done =>
        /\ OutKeys(treq.out, treq.pass) =
              {"model", "messages", "temperature", "max_tokens", "stream"}
              \cup ((DOMAIN treq.extra) \cap PassthroughParams)
        /\ \A k \in (DOMAIN treq.extra) \cap PassthroughParams :
              treq.pass[k] = treq.extra[k]

\* the failures found before the outbound call (app.go 468, 477, 484)
AbortMessages == {NoKeyMessage} \cup BodyFailMessages

C24_FailuresGetEnvelope ==
    \A h \in Handlers :
        (hpc[h] = "respond" /\ hloc[h].msg # "")
            => /\ hloc[h].sent.kind = "error json"
               /\ hloc[h].sent.msg = hloc[h].msg
               /\ hloc[h].sent.type # ""
               /\ hloc[h].sent.code = hloc[h].sent.status

\* C25: once a write to the caller has failed during the streaming relay,
\* the relay writes nothing more to the caller and reads nothing more from
\* the upstream body.
C25_StopOnWriteFailure ==
    [][ relay.failed
          => /\ relay'.read = relay.read
             /\ relay'.written = relay.written
             /\ relay'.flushes = relay.flushes
             /\ ~RelayRead ]_vars

\* C26: on the streaming path the bytes written to the caller are the bytes
\* read from the upstream body in their order, with a flush after every chunk
\* that is not empty, the one that comes with the end or an error included;
\* the loop ends once a read has reported the end or an error.
C26_RelayCopiesAndStops ==
    /\ [](IF relay.pc = "write"
          THEN /\ relay.written \o relay.n = relay.read
               /\ relay.flushes + (IF relay.n # <<>> THEN 1 ELSE 0) = relay.chunks
          ELSE /\ relay.written = relay.read
               /\ relay.flushes = relay.chunks)
    /\ [][ /\ (RelayWrite /\ relay.err) => relay'.pc = "close"
           /\ (relay.pc \in {"close", "done"})
                => (~RelayRead /\ relay'.read = relay.read /\ relay'.written = relay.written)
      ]_vars

\* a body of three bytes was relayed in two chunks, the second of which came
\* together with the end
C26_Witness ==
    /\ relay.pc = "done" /\ relay.closed
    /\ relay.read = <<"a", "b", "a">> /\ relay.written = relay.read
    /\ relay.chunks = 2 /\ relay.flushes = 2
    /\ relay.n = <<"a">> /\ relay.err /\ relay.up = <<>>

\* the positions at which a chat-completion handler reads the inbound body,
\* makes the outbound call, reads from the upstream or writes to the caller
IOPositions == {"body", "call", "relay", "parse", "forward", "reply", "respond"}

\* thread t holds a.mu, for reading or for writing
HoldsStore(t) == mu.writer = t \/ t \in mu.readers

\* C27: a chat-completion handler holds neither a.mu, for reading or for
\* writing, nor a.tunnel.mu while it reads the inbound body, makes the
\* outbound call, reads from the upstream or writes to the caller.
C27_NoLockAcrossIO ==
    \A h \in Handlers :
        hpc[h] \in IOPositions => ~HoldsStore(Handler(h)) /\ tmu # Handler(h)

\* one handler is in its outbound call while another holds a.mu for writing
\* and /api/apikey waits for it
C27_Witness ==
    \E h, g \in Handlers :
        /\ hpc[h] = "call" /\ hpc[g] = "msg_store" /\ mu.writer = Handler(g)
        /\ apc[1] = "key_store"

\* C28: recording an error is one step to every reader. Whenever a.mu is not
\* held for writing, the length of the error log is the smaller of 50 and
\* the number of errors recorded since the last reset, which is the error
\* count, and with an error counted the newest entry is at the head; the log
\* never shows 51 entries.
C28_RecordErrorAtomic ==
    mu.writer = NoHolder =>
        /\ stats.ErrorCount = applied.ErrorCount
        /\ Len(stats.ErrorLog) = (IF stats.ErrorCount > 50 THEN 50 ELSE stats.ErrorCount)
        /\ Len(stats.ErrorLog) <= 50
        /\ stats.ErrorCount > 0 => stats.ErrorLog[1].Timestamp = nerr

\* behind a.mu an error has been counted and put in front of a full log,
\* which holds 51 entries until it is cut
C28_Witness ==
    \E h \in Handlers :
        /\ hpc[h] = "err_cap" /\ mu.writer = Handler(h)
        /\ Len(stats.ErrorLog) = 51 /\ stats.ErrorCount = 51
        /\ nreset = 1

\* the offset of the first whitespace token of s, Len(s) if it has none
FirstWhiteSpace(s) ==
    IF \E i \in 1..Len(s) : s[i] \in WhiteSpace
    THEN (CHOOSE i \in 1..Len(s) : s[i] \in WhiteSpace /\ \A j \in 1..(i-1) : s[j] \notin WhiteSpace) - 1
    ELSE Len(s)

\* the text from the first "https://" of a chunk up to the next whitespace
\* of any kind or the end of the chunk, without a trailing "."
UpToWhiteSpace(output) ==
    LET rest == Slice(output, Index(output, HTTPS), Len(output))
        url  == SubSeq(rest, 1, FirstWhiteSpace(rest))
    IN  IF HasSuffixDot(url) THEN SubSeq(url, 1, Len(url) - 1) ELSE url

\* C29: a chunk with the marker and an "https://" records as URL the text
\* from the first "https://" up to the next whitespace of any kind (space,
\* tab, newline) or the end of the chunk, trailing punctuation removed; any
\* other chunk changes nothing; a later match overwrites an earlier one.
C29_URLUpToWhiteSpace ==
    [][ ScanApply =>
          IF Contains(scan'.chunk, MARKER) /\ Contains(scan'.chunk, HTTPS)
          THEN scan'.URL = UpToWhiteSpace(scan'.chunk) /\ scan'.Status = "running"
          ELSE scan'.URL = scan.URL /\ scan'.Status = scan.Status ]_vars

\* C30: a start call that fails (no executable found, or cmd.Start() fails)
\* returns a failure and leaves Status, URL and process as the call found
\* them, whether it found "stopped" or "starting"; a start call that spawns
\* returns "starting" with Status "starting", an empty URL and the new handle
\* in the state as it returns.
C30_StartOutcome ==
    [][ \A c \in Clients :
          /\ (StartCheck(c) /\ pc'[c] = "respond" /\ ~ret'[c].success)
                => tunnel' = tunnel
          /\ (StartCheck(c) /\ pc'[c] = "st_spawn")
                => tunnel'.URL = tunnel.URL /\ tunnel'.process = tunnel.process
          /\ StartSpawnFail(c)
                => /\ ~ret'[c].success
                   /\ tunnel'.URL = tunnel.URL /\ tunnel'.process = tunnel.process
                   /\ tunnel'.Status = tmp[c].status
          /\ StartSpawnOk(c)
                => /\ ret'[c].success /\ ret'[c].status = "starting"
                   /\ tunnel'.Status = "starting" /\ tunnel'.URL = NoURL
                   /\ tunnel'.process = nspawned' /\ alive'[tunnel'.process] ]_vars

\* the live subprocesses that the stored handle does not refer to
Unreferenced == {p \in Procs : alive[p] /\ tunnel.process # p}

\* C31: with a.tunnel.mu free every live subprocess is the one the stored
\* handle refers to; the exit watcher and the readers of a subprocess never
\* clear or replace the handle of a later-started live subprocess; and in the
\* state a stop call leaves, no spawned subprocess is alive (a subprocess
\* that was sent a kill is not).
C31_LiveIsReferenced ==
    [][ /\ (tmu' = NoHolder) => (Unreferenced' = {})
        /\ \A p \in Procs : \A s \in Streams :
              (Watcher(p) \/ Reader(p, s))
                  => (tunnel.process > p /\ alive[tunnel.process]
                         => tunnel'.process = tunnel.process)
        /\ \A c \in Clients : StopTunnel(c) => (\A p \in Procs : ~alive'[p]) ]_vars

\* C32: whenever a.tunnel.mu is free, the URL is non-empty exactly when
\* Status is "running": it is empty in "stopped" and in "starting".
C32_URLIffRunning ==
    TunnelFree => (tunnel.URL # NoURL <=> tunnel.Status = "running")

\* a reader's scanForURL that ran after a stop: "running" with the URL and
\* no handle, the stop's response not yet sent
C32_Witness ==
    /\ TunnelFree
    /\ tunnel.Status = "running" /\ tunnel.URL # NoURL /\ tunnel.process = 0
    /\ \E c \in Clients : ret[c].op = "stop"

\* the callers whose configuration update has completed and whose response
\* is about to be sent
Completed == {a \in Admins : apc[a] = "respond"}

\* C33: once every one of a set of concurrent configuration updates (config
\* save, set-model, set-credential) has completed, each with a file write
\* that succeeded, settings.json holds the configuration that is in memory.
C33_DiskEqualsMemory ==
    ( /\ Completed # {}
      /\ ncfg = Cardinality(Completed)
      /\ \A a \in Admins : apc[a] \in {"idle", "respond"}
      /\ \A a \in Completed : aloc[a].success )
        => (disk.present /\ disk.data = config)

====
